---- MODULE Spec2Model ----
(***************************************************************************)
(* A model of streamlit_app.py: the slice filter get_slice_membership, the *)
(* long-format aggregator make_long_reason_dataframe behind st.cache, and  *)
(* the script that streamlit re-executes top to bottom on every widget     *)
(* interaction.                                                            *)
(*                                                                         *)
(* A DataFrame is a sequence of rows; a row is a record with one field per *)
(* column plus "id", its index label.  A boolean cell is 1 or 0 and a      *)
(* missing cell (pandas NaN) is NaN in a numeric column and NaNStr in a    *)
(* text column.  A pandas Series of labels is [dtype, vals].               *)
(***************************************************************************)
EXTENDS Integers, Sequences, FiniteSets, TLC

VARIABLES
  data,          \* df = load_data(): the frame read from the CSV
  call,          \* the arguments of the last direct call of a function
  result,        \* what that call returned
  cache,         \* st.cache's memo of make_long_reason_dataframe
  widgets,       \* the session's widget values
  slice_labels,  \* the script's slice_labels after line 192
  df,            \* the script's df after line 197
  views,         \* the table behind each view's chart and download
  runs           \* how many times the session has re-executed the script

vars == <<data, call, result, cache, widgets, slice_labels, df, views, runs>>

----------------------------------------------------------------------------
(* Python values *)

\* pandas NaN in a numeric or boolean column
NaN == -1

\* pandas NaN in a text column
NaNStr == "nan"

\* Python None
None == [py |-> "None"]

\* a Python list, as the set of its items (the code only tests membership)
List(S) == [py |-> "list", items |-> S]

\* the (low, high) tuple a range slider returns
Tuple(a, b) == [py |-> "tuple", lo |-> a, hi |-> b]

\* `x is not None`
IsNotNone(x) == x.py # "None"

\* a slip: `if x is not None:` where the code has `if x:`
Truthy_IsNotNone(x) == x.py # "None"

\* `if x:` for x a list or None: None and the empty list are falsy
Truthy(x) == x.py # "None" /\ x.items # {}

\* the script has not run / no direct call has been made
Unset == [py |-> "unset"]

----------------------------------------------------------------------------
(* The CSV's columns that the code names *)

INCOME_ORDER == <<"<$25,000", "$25,000 - $34,999">>

GENDER_ORDER == <<"Female", "Male">>

MARITAL_STATUS_ORDER == <<"Married", "Widowed">>

EDUCATION_ORDER == <<"Some college", "Bachelors degree">>

RACE_VALUES == <<"White", "Black">>

\* the survey weeks of the dataset
WEEKS == <<20, 25>>

\* the youngest and the oldest respondent of the modelled frames
AGES == <<18, 88>>

\* a row whose cells are all at their first value
BaseRow ==
  [id |-> 0,
   gender |-> GENDER_ORDER[1], education |-> EDUCATION_ORDER[1],
   race |-> RACE_VALUES[1], age |-> AGES[1],
   marital_status |-> MARITAL_STATUS_ORDER[1], income |-> INCOME_ORDER[1],
   week |-> WEEKS[1], received_EIP |-> NaN, hispanic |-> 0,
   spend_source_savings |-> 0, spend_source_credit |-> 0,
   spending_change_economy |-> 0, eip_spend_food |-> 0,
   food_spending_unprepared |-> 0, food_spending_prepared |-> 0,
   anxious_freq |-> 1, worry_freq |-> 1, depressed_freq |-> 1,
   little_interest_freq |-> 1]

\* pd.read_csv numbers the rows 0, 1, 2, ...: the RangeIndex
WithIndex(rows) == [i \in 1..Len(rows) |-> [rows[i] EXCEPT !.id = i - 1]]

\* all sequences over S of length at most n
SeqUpTo(S, n) == UNION {[1..k -> S] : k \in 0..n}

----------------------------------------------------------------------------
(* get_slice_membership, lines 57-72 *)

\* pd.Series([1] * len(df), index=df.index)
Ones(d) == [dtype |-> "int64", vals |-> [i \in 1..Len(d) |-> 1]]

\* a slip: `~df[col].isin(values)`
isin_complement(d, col, values) ==
  [i \in 1..Len(d) |-> IF d[i][col] \in values.items THEN 0 ELSE 1]

\* df[col].isin(values): a boolean mask
isin(d, col, values) == [i \in 1..Len(d) |-> IF d[i][col] \in values.items THEN 1 ELSE 0]

\* a slip: `>` where the code has `>=`
ge_strict(d, col, x) ==
  [i \in 1..Len(d) |-> IF d[i][col] # NaN /\ d[i][col] > x THEN 1 ELSE 0]

\* df[col] >= x; a comparison with NaN is False
ge(d, col, x) == [i \in 1..Len(d) |-> IF d[i][col] # NaN /\ d[i][col] >= x THEN 1 ELSE 0]

\* a slip: `<` where the code has `<=`
le_strict(d, col, x) ==
  [i \in 1..Len(d) |-> IF d[i][col] # NaN /\ d[i][col] < x THEN 1 ELSE 0]

\* df[col] <= x
le(d, col, x) == [i \in 1..Len(d) |-> IF d[i][col] # NaN /\ d[i][col] <= x THEN 1 ELSE 0]

\* labels &= mask: the bitwise and of each label with the mask's bit; pandas
\* gives the result of int64 & bool the dtype bool
IAnd(labels, mask) ==
  [dtype |-> "bool",
   vals |-> [i \in 1..Len(labels.vals) |-> (labels.vals[i] % 2) * mask[i]]]

get_slice_membership(d, genders, educations, races, age_range, marital_status, income) ==
  LET l0 == Ones(d)
      l1 == IF Truthy(genders) THEN IAnd(l0, isin(d, "gender", genders)) ELSE l0
      l2 == IF Truthy(educations) THEN IAnd(l1, isin(d, "education", educations)) ELSE l1
      l3 == IF Truthy(races) THEN IAnd(l2, isin(d, "race", races)) ELSE l2
      l4 == IF IsNotNone(age_range)
            THEN IAnd(IAnd(l3, ge(d, "age", age_range.lo)), le(d, "age", age_range.hi))
            ELSE l3
      l5 == IF Truthy(marital_status)
            THEN IAnd(l4, isin(d, "marital_status", marital_status)) ELSE l4
      l6 == IF Truthy(income) THEN IAnd(l5, isin(d, "income", income)) ELSE l5
  IN l6

----------------------------------------------------------------------------
(* Direct calls of get_slice_membership on small frames *)

MaxSliceRows == 1

\* a respondent of age a taking the k-th value of every other demographic column
SliceRow(k, a) ==
  [BaseRow EXCEPT !.gender = GENDER_ORDER[k], !.education = EDUCATION_ORDER[k],
                  !.race = RACE_VALUES[k], !.age = a,
                  !.marital_status = MARITAL_STATUS_ORDER[k],
                  !.income = INCOME_ORDER[k]]

SliceRows == {SliceRow(k, a) : k \in 1..2, a \in {AGES[1], AGES[2]}}

SliceFrames == {WithIndex(s) : s \in SeqUpTo(SliceRows, MaxSliceRows)}

Range(s) == {s[i] : i \in 1..Len(s)}

\* None, [], or a list of the column's values
FilterValues(order) == {None} \cup {List(S) : S \in SUBSET Range(order)}

\* None or a (low, high) pair, low > high included
RangeValues == {None} \cup {Tuple(a, b) : a \in Range(AGES), b \in Range(AGES)}

SliceInit ==
  /\ data \in SliceFrames
  /\ call = Unset
  /\ result = Unset
  /\ cache = Unset /\ widgets = Unset /\ slice_labels = Unset
  /\ df = Unset /\ views = Unset /\ runs = 0

CallSlice ==
  /\ call = Unset
  /\ \E g \in FilterValues(GENDER_ORDER), e \in FilterValues(EDUCATION_ORDER),
        r \in FilterValues(RACE_VALUES), a \in RangeValues,
        m \in FilterValues(MARITAL_STATUS_ORDER), i \in FilterValues(INCOME_ORDER) :
       /\ call' = [genders |-> g, educations |-> e, races |-> r, age_range |-> a,
                   marital_status |-> m, income |-> i]
       /\ result' = get_slice_membership(data, g, e, r, a, m, i)
  /\ UNCHANGED <<data, cache, widgets, slice_labels, df, views, runs>>

SliceNext == CallSlice

SliceSpec == SliceInit /\ [][SliceNext]_vars

\* the call's arguments applied afresh
ApplySlice(d, c) ==
  get_slice_membership(d, c.genders, c.educations, c.races, c.age_range,
                       c.marital_status, c.income)

SliceFilters == {"genders", "educations", "races", "marital_status", "income"}

\* a criterion is supplied when its list is given and not empty
Supplied(x) == x.py = "list" /\ x.items # {}

Satisfies(row, c) ==
  /\ Supplied(c.genders) => row.gender \in c.genders.items
  /\ Supplied(c.educations) => row.education \in c.educations.items
  /\ Supplied(c.races) => row.race \in c.races.items
  /\ Supplied(c.marital_status) => row.marital_status \in c.marital_status.items
  /\ Supplied(c.income) => row.income \in c.income.items
  /\ c.age_range.py = "tuple" =>
        c.age_range.lo <= row.age /\ row.age <= c.age_range.hi

\* C1: get_slice_membership returns one label per record, and a record's label
\* is true exactly when the record satisfies every supplied criterion: each of
\* gender, education, race, marital status and income is in its supplied
\* list, and age_range[0] <= age <= age_range[1], both bounds inclusive.
C1_MembershipIffAllCriteria ==
  call # Unset =>
    /\ Len(result.vals) = Len(data)
    /\ \A i \in 1..Len(data) : (result.vals[i] = 1) <=> Satisfies(data[i], call)

\* a call with all six criteria supplied that keeps a record
C1_Witness ==
  /\ call # Unset
  /\ \A f \in SliceFilters : Supplied(call[f])
  /\ call.age_range.py = "tuple"
  /\ \E i \in 1..Len(data) : result.vals[i] = 1 /\ data[i].age = call.age_range.hi

\* C2: for each of the five list filters, passing None or an empty list gives
\* the membership vector of the call that omits that filter (its default,
\* None), whatever the other arguments are.
C2_AbsentOrEmptyIsNoConstraint ==
  call # Unset =>
    \A f \in SliceFilters :
      ~Supplied(call[f]) =>
        /\ result = ApplySlice(data, [call EXCEPT ![f] = None])
        /\ result = ApplySlice(data, [call EXCEPT ![f] = List({})])

\* an empty gender list beside a race filter that drops a record
C2_Witness ==
  /\ call # Unset
  /\ call.genders = List({})
  /\ Supplied(call.races)
  /\ \E i \in 1..Len(data) : result.vals[i] = 0

----------------------------------------------------------------------------
(* make_long_reason_dataframe, lines 74-83 *)

\* df.columns, in the file's order
COLUMNS ==
  <<"gender", "education", "race", "age", "marital_status", "income", "week",
    "received_EIP", "hispanic", "spend_source_savings", "spend_source_credit",
    "spending_change_economy", "eip_spend_food", "food_spending_unprepared",
    "food_spending_prepared", "anxious_freq", "worry_freq", "depressed_freq",
    "little_interest_freq">>

\* a column name as the string of its parts: what startswith and the
\* stub/suffix split of wide_to_long read
NameOf(c) ==
  CASE c = "spend_source_savings" -> <<"spend_source_", "savings">>
    [] c = "spend_source_credit" -> <<"spend_source_", "credit">>
    [] c = "spending_change_economy" -> <<"spending_change_", "economy">>
    [] c = "eip_spend_food" -> <<"eip_spend_", "food">>
    [] OTHER -> <<c>>

\* the columns holding text; the others hold numbers or booleans
TEXT_COLUMNS == {"gender", "education", "race", "marital_status", "income"}

\* pd.isna of a cell of column c
isna(c, v) == IF c \in TEXT_COLUMNS THEN v = NaNStr ELSE v = NaN

\* c.startswith(prefix)
startswith(c, prefix) ==
  /\ Len(NameOf(c)) >= Len(prefix)
  /\ SubSeq(NameOf(c), 1, Len(prefix)) = prefix

\* wide_to_long's value columns: the regex ^prefix.+$ wants a non-empty suffix
IsStubColumn(c, prefix) == startswith(c, prefix) /\ Len(NameOf(c)) > Len(prefix)

\* the suffix wide_to_long puts in column j
Suffix(c, prefix) == SubSeq(NameOf(c), Len(prefix) + 1, Len(NameOf(c)))

\* a slip: no fillna, so that mean() skips the missing values
fillna_skipped(v, fill) == v

\* Series.fillna(fill) on one cell of the value column
fillna(v, fill) == IF v = NaN THEN fill ELSE v

\* pd.wide_to_long(reasons, reason_prefix, i='id', j=field_name, suffix='.+')
\* followed by line 79: one long row per (value column, record), carrying
\* the record's id, week and add_fields cells
wide_to_long(d, prefix, add_fields) ==
  LET cols == SelectSeq(COLUMNS, LAMBDA c : IsStubColumn(c, prefix))
      n == Len(d)
  IN [k \in 1..(Len(cols) * n) |->
        LET c == cols[((k - 1) \div n) + 1]
            r == d[((k - 1) % n) + 1]
        IN [id |-> r.id, week |-> r.week, label |-> Suffix(c, prefix),
            by |-> [a \in 1..Len(add_fields) |-> r[add_fields[a]]],
            agree |-> fillna(r[c], 0)]]

\* the text values in the order pandas sorts them (code point order)
TEXT_ORDER ==
  <<"$25,000 - $34,999", "<$25,000", "Bachelors degree", "Black", "Female", "Male",
    "Married", "Some college", "White", "Widowed", "credit", "economy", "food",
    "savings">>

TextRank(v) == CHOOSE i \in 1..Len(TEXT_ORDER) : TEXT_ORDER[i] = v

\* a group key: week, label, then the add_fields cells
KeyOf(row) == <<row.week, row.label>> \o row.by

\* groupby's dropna=True: a row with a missing key cell is in no group
HasKey(row, add_fields) ==
  /\ row.week # NaN
  /\ \A a \in 1..Len(add_fields) : ~isna(add_fields[a], row.by[a])

\* the sort key of a group key
RankOf(key, add_fields) ==
  [p \in 1..Len(key) |->
     IF p = 1 THEN key[1]
     ELSE IF p = 2 THEN TextRank(key[2][1])
     ELSE IF add_fields[p - 2] \in TEXT_COLUMNS THEN TextRank(key[p]) ELSE key[p]]

RECURSIVE LexLess(_, _)
LexLess(a, b) ==
  IF a = <<>> \/ b = <<>> THEN a = <<>> /\ b # <<>>
  ELSE Head(a) < Head(b) \/ (Head(a) = Head(b) /\ LexLess(Tail(a), Tail(b)))

\* groupby's sort=True: the keys in ascending order
RECURSIVE SortKeys(_, _)
SortKeys(keys, add_fields) ==
  IF keys = {} THEN <<>>
  ELSE LET k == CHOOSE x \in keys :
                  \A y \in keys \ {x} : LexLess(RankOf(x, add_fields), RankOf(y, add_fields))
       IN <<k>> \o SortKeys(keys \ {k}, add_fields)

RECURSIVE Sum(_)
Sum(s) == IF s = <<>> THEN 0 ELSE Head(s) + Sum(Tail(s))

\* a slip: 'sum' where the code has 'mean'
sum_agg(values) ==
  LET present == SelectSeq(values, LAMBDA v : v # NaN)
  IN [num |-> Sum(present), den |-> 1]

\* agg 'mean': the sum of the present values over their number, as the ratio
\* num/den (0/0, the mean of no value, is NaN)
mean(values) ==
  LET present == SelectSeq(values, LAMBDA v : v # NaN)
  IN [num |-> Sum(present), den |-> Len(present)]

\* a slip: grouping by ['week', field_name] alone
GroupColumns_NoAddFields(row, add_fields) == SubSeq(KeyOf(row), 1, 2)

\* the cells a row is grouped by: ['week', field_name] + add_fields
GroupColumns(row, add_fields) == KeyOf(row)

\* a slip: a row for every week of every group seen, as a categorical key
\* grouped with observed=False gives
GroupKeys_EveryWeek(kept, add_fields) ==
  {<<w>> \o Tail(GroupColumns(kept[i], add_fields)) :
     w \in {WEEKS[1], WEEKS[2]}, i \in 1..Len(kept)}

\* the groups of a groupby: the keys that some row has
GroupKeys(kept, add_fields) == {GroupColumns(kept[i], add_fields) : i \in 1..Len(kept)}

\* a slip: * 100 applied to a value that is a percentage already
percent_twice(m) == [num |-> m.num * 100 * 100, den |-> m.den]

\* grouped['% agree'] * 100
percent(m) == [num |-> m.num * 100, den |-> m.den]

\* reasons.groupby(['week', field_name] + add_fields).agg({'% agree': 'mean'})
\*        .reset_index(), then line 82's * 100
groupby_mean(long, add_fields) ==
  LET kept == SelectSeq(long, LAMBDA row : HasKey(row, add_fields))
      keys == SortKeys(GroupKeys(kept, add_fields), add_fields)
  IN [g \in 1..Len(keys) |->
        LET rows == SelectSeq(kept, LAMBDA row : GroupColumns(row, add_fields) = keys[g])
        IN [key |-> keys[g],
            agree |-> percent(mean([i \in 1..Len(rows) |-> rows[i].agree]))]]

\* the function's body: the table's column names and its rows
make_long_reason_dataframe(d, reason_prefix, field_name, add_fields) ==
  [columns |-> <<"week", field_name>> \o add_fields \o <<"% agree">>,
   rows |-> groupby_mean(wide_to_long(d, reason_prefix, add_fields), add_fields)]

\* a slip: a memo that leaves add_fields out of its key
CacheKey_NoAddFields(d, reason_prefix, field_name, add_fields) ==
  [df |-> d, reason_prefix |-> reason_prefix, field_name |-> field_name,
   add_fields |-> <<>>]

\* @st.cache: the memo is keyed by the hash of every argument
CacheKey(d, reason_prefix, field_name, add_fields) ==
  [df |-> d, reason_prefix |-> reason_prefix, field_name |-> field_name,
   add_fields |-> add_fields]

\* the decorated function: the memo's table on a hit, the body's on a miss
cached_make_long_reason_dataframe(memo, d, reason_prefix, field_name, add_fields) ==
  LET k == CacheKey(d, reason_prefix, field_name, add_fields)
  IN IF k \in DOMAIN memo THEN memo[k]
     ELSE make_long_reason_dataframe(d, reason_prefix, field_name, add_fields)

\* the memo after the call
MemoAfter(memo, d, reason_prefix, field_name, add_fields) ==
  LET k == CacheKey(d, reason_prefix, field_name, add_fields)
  IN IF k \in DOMAIN memo THEN memo
     ELSE memo @@ (k :> make_long_reason_dataframe(d, reason_prefix, field_name, add_fields))

EmptyMemo == <<>>

----------------------------------------------------------------------------
(* Direct calls of make_long_reason_dataframe on small frames *)

MaxLongRows == 2

\* a respondent of week w whose 'savings' source cell is s and whose
\* received_EIP cell is e
LongRow(w, s, e) ==
  [BaseRow EXCEPT !.week = w, !.spend_source_savings = s,
                  !.spend_source_credit = IF w = WEEKS[1] THEN 1 ELSE 0,
                  !.received_EIP = e,
                  !.eip_spend_food = IF e = 1 THEN 1 ELSE NaN]

\* week 20 has no received_EIP data (lines 126-131)
LongRows ==
  {LongRow(WEEKS[1], s, NaN) : s \in {1, 0, NaN}}
  \cup {LongRow(WEEKS[2], s, e) : s \in {1, 0, NaN}, e \in {1, 0}}

LongFrames == {WithIndex(s) : s \in SeqUpTo(LongRows, MaxLongRows)}

\* the arguments of the script's calls: spending sources with and without
\* the received_EIP breakdown (lines 229-232), spending targets (lines 473-476)
LongCalls ==
  {[reason_prefix |-> <<"spend_source_">>, field_name |-> "Source", add_fields |-> a] :
     a \in {<<>>, <<"received_EIP">>}}
  \cup
  {[reason_prefix |-> <<"eip_spend_">>, field_name |-> "Target", add_fields |-> <<>>]}

LongInit ==
  /\ data \in LongFrames
  /\ call = Unset
  /\ result = Unset
  /\ cache = EmptyMemo
  /\ widgets = Unset /\ slice_labels = Unset /\ df = Unset /\ views = Unset
  /\ runs = 0

CallLong ==
  /\ \E c \in LongCalls :
       /\ call' = [reason_prefix |-> c.reason_prefix, field_name |-> c.field_name,
                   add_fields |-> c.add_fields,
                   served |-> IF CacheKey(data, c.reason_prefix, c.field_name, c.add_fields)
                                   \in DOMAIN cache
                              THEN "cache" ELSE "computed"]
       /\ result' = cached_make_long_reason_dataframe(cache, data, c.reason_prefix,
                                                      c.field_name, c.add_fields)
       /\ cache' = MemoAfter(cache, data, c.reason_prefix, c.field_name, c.add_fields)
  /\ UNCHANGED <<data, widgets, slice_labels, df, views, runs>>

LongNext == CallLong

LongSpec == LongInit /\ [][LongNext]_vars

\* the column whose name is the prefix followed by the label
ColumnOf(prefix, label) ==
  CHOOSE c \in Range(COLUMNS) : NameOf(c) = prefix \o label

\* the key a record has for a label: its week, the label, its add_fields cells
RecordKey(r, label, add_fields) ==
  <<r.week, label>> \o [a \in 1..Len(add_fields) |-> r[add_fields[a]]]

\* the input records of a key's group
GroupOf(d, key, add_fields) ==
  {i \in 1..Len(d) : RecordKey(d[i], key[2], add_fields) = key}

\* the labels of the prefix's indicator columns
LabelsOf(prefix) ==
  {Suffix(c, prefix) : c \in {x \in Range(COLUMNS) : IsStubColumn(x, prefix)}}

Called == call # Unset

\* C4: every output row's '% agree' is 100 times the number of input records
\* of the row's (week, label, add_fields values) group whose indicator is
\* true, divided by the number of input records of that group.
C4_PercentIsTrueShareOfGroup ==
  Called =>
    \A g \in 1..Len(result.rows) :
      LET row == result.rows[g]
          group == GroupOf(data, row.key, call.add_fields)
          col == ColumnOf(call.reason_prefix, row.key[2])
          agreeing == {i \in group : data[i][col] = 1}
      IN /\ group # {}
         /\ row.agree.den # 0
         /\ row.agree.num * Cardinality(group)
              = 100 * Cardinality(agreeing) * row.agree.den

\* a group of two records, one agreeing: 50 %
C4_Witness ==
  /\ Called
  /\ \E g \in 1..Len(result.rows) :
       /\ Cardinality(GroupOf(data, result.rows[g].key, call.add_fields)) = 2
       /\ result.rows[g].agree.num * 2 = 100 * result.rows[g].agree.den

\* C5: every '% agree' value lies in [0, 100].
C5_PercentWithin0And100 ==
  Called =>
    \A g \in 1..Len(result.rows) :
      LET a == result.rows[g].agree
      IN a.den > 0 /\ 0 <= a.num /\ a.num <= 100 * a.den

\* a table holding both ends of the range: a row at 0 and a row at 100
C5_Witness ==
  /\ Called
  /\ \E g, h \in 1..Len(result.rows) :
       /\ result.rows[g].agree.num = 0
       /\ result.rows[h].agree.num = 100 * result.rows[h].agree.den
       /\ Len(data) > 1

\* the frame with every missing indicator cell of the prefix set to False
MissingAsFalse(d, prefix) ==
  [i \in 1..Len(d) |->
     [c \in DOMAIN d[i] |->
        IF c \in Range(COLUMNS) /\ IsStubColumn(c, prefix) /\ d[i][c] = NaN
        THEN 0 ELSE d[i][c]]]

\* C6: a missing indicator value counts as false: the record is in its
\* group's denominator and adds nothing to the numerator, so the table is the
\* one the body computes from the frame with each missing indicator cell
\* replaced by False.
C6_MissingCountsAsFalse ==
  Called =>
    /\ result = make_long_reason_dataframe(MissingAsFalse(data, call.reason_prefix),
                                           call.reason_prefix, call.field_name,
                                           call.add_fields)
    /\ \A g \in 1..Len(result.rows) :
         LET row == result.rows[g]
             group == GroupOf(data, row.key, call.add_fields)
             col == ColumnOf(call.reason_prefix, row.key[2])
         IN /\ row.agree.den = Cardinality(group)
            /\ row.agree.num = 100 * Cardinality({i \in group : data[i][col] = 1})

\* a group with one agreeing record and one whose indicator is missing
C6_Witness ==
  /\ Called
  /\ \E g \in 1..Len(result.rows) :
       LET row == result.rows[g]
           group == GroupOf(data, row.key, call.add_fields)
           col == ColumnOf(call.reason_prefix, row.key[2])
       IN /\ \E i \in group : data[i][col] = NaN
          /\ \E i \in group : data[i][col] = 1
          /\ row.agree.den = 2 /\ row.agree.num = 100

\* the rows of the table with a given key
RowsWithKey(table, key) == {g \in 1..Len(table.rows) : table.rows[g].key = key}

\* a record's week and add_fields cells are all present
KeyPresent(r, add_fields) ==
  /\ r.week # NaN
  /\ \A a \in 1..Len(add_fields) : ~isna(add_fields[a], r[add_fields[a]])

\* C7 as stated: for each (week, label, add_fields values) combination that
\* an input record holds there is exactly one output row.
C7_OneRowPerHeldCombination ==
  Called =>
    \A i \in 1..Len(data), label \in LabelsOf(call.reason_prefix) :
      Cardinality(RowsWithKey(result, RecordKey(data[i], label, call.add_fields))) = 1

\* C7 amended: for each (week, label, add_fields values) combination held by
\* an input record whose week and add_fields values are all present there is
\* exactly one output row; a record with a missing week or add_fields value
\* is in no group and gets no row; every row has a key of its own.
C7_OneRowPerPresentCombination ==
  Called =>
    /\ \A i \in 1..Len(data), label \in LabelsOf(call.reason_prefix) :
         Cardinality(RowsWithKey(result, RecordKey(data[i], label, call.add_fields)))
           = IF KeyPresent(data[i], call.add_fields) THEN 1 ELSE 0
    /\ \A g, h \in 1..Len(result.rows) :
         result.rows[g].key = result.rows[h].key => g = h
    /\ \A g \in 1..Len(result.rows) : Len(result.rows[g].key) = 2 + Len(call.add_fields)

\* a breakdown by received_EIP of a frame with a week-20 record (no
\* received_EIP value, no row) and a later record (a row per source)
C7_Witness ==
  /\ Called
  /\ call.add_fields = <<"received_EIP">>
  /\ \E i \in 1..Len(data) : data[i].received_EIP = NaN
  /\ \E i \in 1..Len(data) : data[i].received_EIP # NaN
  /\ Len(result.rows) = 2

\* C8: every output row's key is held by at least one input record: there is
\* no row for an empty group.
C8_NoRowForEmptyGroup ==
  Called =>
    \A g \in 1..Len(result.rows) :
      \E i \in 1..Len(data) :
        RecordKey(data[i], result.rows[g].key[2], call.add_fields) = result.rows[g].key

\* a table with rows for one week and none for the other
C8_Witness ==
  /\ Called
  /\ Len(result.rows) > 0
  /\ \E w \in Range(WEEKS) : \A g \in 1..Len(result.rows) : result.rows[g].key[1] # w

----------------------------------------------------------------------------
(* The script, lines 85-657: one run on the session's widget values *)

\* a slip: the frame left unsliced
boolean_mask_ignored(d, labels) == d

\* df[labels]: the rows whose label is true, matched by index
boolean_mask(d, labels) == SelectSeq(d, LAMBDA r : labels.vals[r.id + 1] = 1)

\* a slip: `slice_labels = ...` where the code has `slice_labels &= ...`
SliceLabels_WeeksOnly(d, w) ==
  LET labels == get_slice_membership(d, w.genders, w.educations, w.races, w.age_range,
                                     w.marital_status, w.income)
  IN IF Truthy(w.weeks_to_show)
     THEN [dtype |-> "bool", vals |-> isin(d, "week", w.weeks_to_show)]
     ELSE labels

\* lines 180-192: the demographic filter, then the chosen weeks
SliceLabels(d, w) ==
  LET labels == get_slice_membership(d, w.genders, w.educations, w.races, w.age_range,
                                     w.marital_status, w.income)
  IN IF Truthy(w.weeks_to_show) THEN IAnd(labels, isin(d, "week", w.weeks_to_show))
     ELSE labels

\* [layering] if layering != 'none' else []
AddFields(layering) == IF layering # "none" THEN <<layering>> ELSE <<>>

\* plot_df[plot_df[field_name].isin(include_cols)]
Included(table, include_cols) ==
  [table EXCEPT !.rows = SelectSeq(table.rows,
                                   LAMBDA row : row.key[2] \in include_cols.items)]

\* the spending sources, spending change and spending targets views: the
\* cached long table, cut to the chosen labels; None when the chart is off
LongView(memo, d, show_chart, prefix, field_name, layering, include_cols) ==
  IF ~show_chart THEN None
  ELSE LET plot_df == cached_make_long_reason_dataframe(memo, d, prefix, field_name,
                                                        AddFields(layering))
       IN IF Truthy(include_cols) THEN Included(plot_df, include_cols) ELSE plot_df

\* the memo after such a view
LongViewMemo(memo, d, show_chart, prefix, field_name, layering) ==
  IF show_chart THEN MemoAfter(memo, d, prefix, field_name, AddFields(layering))
  ELSE memo

\* lines 316 and 338: the food column, the breakdown column and the week of
\* the rows whose breakdown cell is present
FoodView(d, show, col, breakdown) ==
  IF ~show THEN None
  ELSE LET kept == IF breakdown # "none"
                   THEN SelectSeq(d, LAMBDA r : ~isna(breakdown, r[breakdown]))
                   ELSE d
       IN [columns |-> <<col>> \o AddFields(breakdown) \o <<"week">>,
           rows |-> [i \in 1..Len(kept) |->
                       [id |-> kept[i].id, value |-> kept[i][col],
                        by |-> [a \in 1..Len(AddFields(breakdown)) |-> kept[i][breakdown]],
                        week |-> kept[i].week]]]

\* the cells of a row at the given columns
CellsAt(r, cols) == [a \in 1..Len(cols) |-> r[cols[a]]]

\* df.groupby(keys)[field].value_counts(normalize=normalize): a row per
\* (group, value) with the value's count, or its share of the group's present
\* values, as the ratio num/den; missing keys and values are dropped.  The
\* rows are kept as a set: their order is not modelled.
value_counts(d, keys, field, normalize) ==
  LET kept == SelectSeq(d, LAMBDA r : /\ \A a \in 1..Len(keys) : ~isna(keys[a], r[keys[a]])
                                      /\ ~isna(field, r[field]))
      n == Len(kept)
  IN {[key |-> CellsAt(kept[i], keys), value |-> kept[i][field],
       n |-> [num |-> Cardinality({j \in 1..n : /\ CellsAt(kept[j], keys) = CellsAt(kept[i], keys)
                                               /\ kept[j][field] = kept[i][field]}),
              den |-> IF normalize
                      THEN Cardinality({j \in 1..n : CellsAt(kept[j], keys) = CellsAt(kept[i], keys)})
                      ELSE 1]] : i \in 1..n}

\* df.groupby(keys).agg({field: 'mean'}): a row per group with the mean
grouped_mean(d, keys, field) ==
  LET kept == SelectSeq(d, LAMBDA r : \A a \in 1..Len(keys) : ~isna(keys[a], r[keys[a]]))
  IN {[key |-> CellsAt(kept[i], keys),
       value |-> mean([j \in 1..Len(SelectSeq(kept, LAMBDA r : CellsAt(r, keys) = CellsAt(kept[i], keys)))
                        |-> SelectSeq(kept, LAMBDA r : CellsAt(r, keys) = CellsAt(kept[i], keys))[j][field]])]
      : i \in 1..Len(kept)}

\* Series.astype(bool) on one cell: only 0 is false, NaN is true
astype_bool(v) == IF v = 0 THEN 0 ELSE 1

\* 'val_count' if not percentage else 'val_fraction'
CountField(percentage) == IF percentage THEN "val_fraction" ELSE "val_count"

\* lines 394-408: the Receipt of EIP view
EipView(d, show_chart, percentage, values_to_show, layering) ==
  IF ~show_chart THEN None
  ELSE LET did_not == values_to_show = "Did not receive EIP"
           field == IF did_not THEN "did_not_receive_EIP" ELSE "received_EIP"
           data_to_show ==
             IF did_not
             THEN [i \in 1..Len(d) |->
                     ("did_not_receive_EIP" :> (1 - astype_bool(d[i].received_EIP))) @@ d[i]]
             ELSE SelectSeq(d, LAMBDA r : ~isna("received_EIP", r.received_EIP))
           counts == value_counts(data_to_show, <<"week">> \o AddFields(layering), field,
                                  percentage)
       IN [columns |-> <<"week">> \o AddFields(layering) \o <<field, CountField(percentage)>>,
           rows |-> IF values_to_show # "Both" THEN {row \in counts : row.value = 1}
                    ELSE counts]

\* lines 523-547: the mental health view; the bar chart reads the
\* `percentage` of the Receipt of EIP view
MentalHealthView(d, show_chart, chart_type, field, layering, percentage) ==
  IF ~show_chart THEN None
  ELSE LET data_to_show == SelectSeq(d, LAMBDA r : ~isna(field, r[field]))
           keys == <<"week">> \o AddFields(layering)
       IN IF chart_type = "Line"
          THEN [columns |-> keys \o <<field>>,
                rows |-> grouped_mean(data_to_show, keys, field)]
          ELSE [columns |-> keys \o <<field, CountField(percentage)>>,
                rows |-> value_counts(data_to_show, keys, field, percentage)]

\* the columns of the Dataset Demographics charts that are counted
DEMOGRAPHIC_COLUMNS == {"gender", "marital_status", "race", "hispanic", "income", "education"}

\* lines 585-654: df[col].value_counts() per column, and the ages
DemographicsView(d) ==
  [counts |-> [c \in DEMOGRAPHIC_COLUMNS |-> value_counts(d, <<>>, c, FALSE)],
   age |-> [i \in 1..Len(d) |-> [id |-> d[i].id, age |-> d[i].age]]]

\* the size of the raw data sample
SAMPLE_N == 20

\* df.sample(n=20): any 20 of the rows, or ValueError when there are fewer
Samples(d) ==
  IF Len(d) < SAMPLE_N THEN {[error |-> "ValueError"]}
  ELSE {[ids |-> {d[i].id : i \in S}] :
          S \in {T \in SUBSET (1..Len(d)) : Cardinality(T) = SAMPLE_N}}

\* a slip: the frame passed on whole
week_ne_20_skipped(d) == d

\* df[df['week'] != 20]
week_ne_20(d) == SelectSeq(d, LAMBDA r : r.week # 20)

\* the views of lines 210-657 on the sliced frame d
ViewTables(d, w, memo, sample) ==
  LET memo1 == LongViewMemo(memo, d, w.source_show, <<"spend_source_">>, "Source",
                            w.source_layering)
      memo2 == LongViewMemo(memo1, d, w.change_show, <<"spending_change_">>, "Reason",
                            w.change_layering)
      not20 == week_ne_20(d)
  IN [source |-> LongView(memo, d, w.source_show, <<"spend_source_">>, "Source",
                          w.source_layering, w.source_include),
      change |-> LongView(memo1, d, w.change_show, <<"spending_change_">>, "Reason",
                          w.change_layering, w.change_include),
      unprepared |-> FoodView(d, w.show_unprepared, "food_spending_unprepared",
                              w.food_breakdown),
      prepared |-> FoodView(d, w.show_prepared, "food_spending_prepared",
                            w.food_breakdown),
      eip |-> EipView(d, w.eip_show, w.percentage, w.values_to_show, w.eip_layering),
      target |-> LongView(memo2, not20, w.target_show, <<"eip_spend_">>, "Target",
                          w.target_layering, w.target_include),
      mental_health |-> MentalHealthView(d, w.mh_show, w.chart_type, w.mh_field,
                                         w.mh_layering, w.percentage),
      demographics |-> DemographicsView(d),
      raw |-> IF w.raw_show THEN sample ELSE None]

\* the memo after the three cached calls of a run
ViewMemo(d, w, memo) ==
  LET memo1 == LongViewMemo(memo, d, w.source_show, <<"spend_source_">>, "Source",
                            w.source_layering)
      memo2 == LongViewMemo(memo1, d, w.change_show, <<"spending_change_">>, "Reason",
                            w.change_layering)
  IN LongViewMemo(memo2, week_ne_20(d), w.target_show,
                  <<"eip_spend_">>, "Target", w.target_layering)

\* int(df[col].min()) and int(df[col].max())
ColumnMin(d, col) == CHOOSE v \in {d[i][col] : i \in 1..Len(d)} :
                       \A i \in 1..Len(d) : v <= d[i][col]

ColumnMax(d, col) == CHOOSE v \in {d[i][col] : i \in 1..Len(d)} :
                       \A i \in 1..Len(d) : v >= d[i][col]

\* every widget at the value its declaration gives it
DefaultWidgets(d) ==
  [genders |-> List({}), educations |-> List({}), marital_status |-> List({}),
   income |-> List({}), races |-> List({}),
   age_range |-> Tuple(ColumnMin(d, "age"), ColumnMax(d, "age")),
   weeks_to_show |-> List({}),
   source_show |-> FALSE, source_include |-> List({}), source_layering |-> "none",
   change_show |-> FALSE, change_include |-> List({}), change_layering |-> "none",
   show_unprepared |-> FALSE, show_prepared |-> FALSE, food_breakdown |-> "none",
   eip_show |-> FALSE, percentage |-> TRUE, values_to_show |-> "Both",
   eip_layering |-> "none",
   target_show |-> FALSE, target_include |-> List({}), target_layering |-> "none",
   mh_show |-> FALSE, chart_type |-> "Line", mh_field |-> "anxious_freq",
   mh_layering |-> "none",
   raw_show |-> FALSE]

\* the values of a column that the frame holds: df[col].unique()
Unique(d, col) == {d[i][col] : i \in 1..Len(d)}

\* a multiselect left empty or set to one of its options
Select(options) == {List({})} \cup {List({v}) : v \in options}

\* the values a user can give each widget, as <<widget, value>> pairs
Choices(d) ==
  ({"genders"} \X Select(Unique(d, "gender")))
  \cup ({"educations"} \X Select(Unique(d, "education")))
  \cup ({"marital_status"} \X Select(Unique(d, "marital_status")))
  \cup ({"income"} \X Select(Range(INCOME_ORDER)))
  \cup ({"races"} \X Select(Unique(d, "race")))
  \cup ({"age_range"} \X {Tuple(a, b) : a, b \in Unique(d, "age")})
  \cup ({"weeks_to_show"} \X Select(Unique(d, "week")))
  \cup ({"source_show", "change_show", "show_unprepared", "show_prepared", "eip_show",
         "percentage", "target_show", "mh_show", "raw_show"} \X BOOLEAN)
  \cup ({"source_include"} \X Select({<<"savings">>}))
  \cup ({"change_include"} \X Select({<<"economy">>}))
  \cup ({"target_include"} \X Select({<<"food">>}))
  \cup ({"source_layering", "change_layering", "food_breakdown", "mh_layering"}
          \X {"none", "received_EIP"})
  \cup ({"eip_layering", "target_layering"} \X {"none", "gender"})
  \cup ({"values_to_show"} \X {"Both", "Received EIP", "Did not receive EIP"})
  \cup ({"chart_type"} \X {"Line", "Bar"})
  \cup ({"mh_field"} \X {"anxious_freq", "worry_freq"})

\* every "Show ..." box ticked
AllShown(w) ==
  [w EXCEPT !.source_show = TRUE, !.change_show = TRUE, !.show_unprepared = TRUE,
            !.show_prepared = TRUE, !.eip_show = TRUE, !.target_show = TRUE,
            !.mh_show = TRUE, !.raw_show = TRUE]

\* where a session is picked up: at its first run, or once the user has
\* ticked every Show box
Presets(d) == {DefaultWidgets(d), AllShown(DefaultWidgets(d))}

MaxAppRows == 2

MaxInteractions == 1

\* three respondents: a week-20 one with no received_EIP value, and two of
\* week 25, one who received a payment and one who did not
AppRows ==
  {[SliceRow(1, AGES[1]) EXCEPT !.week = 20, !.received_EIP = NaN,
                                !.spend_source_savings = 1, !.spending_change_economy = 1,
                                !.eip_spend_food = NaN, !.food_spending_unprepared = 3,
                                !.anxious_freq = 1, !.worry_freq = 2],
   [SliceRow(2, AGES[2]) EXCEPT !.week = 25, !.received_EIP = 1, !.hispanic = 1,
                                !.spend_source_credit = 1, !.eip_spend_food = 1,
                                !.food_spending_prepared = 2,
                                !.anxious_freq = 3, !.worry_freq = NaN],
   [SliceRow(1, AGES[2]) EXCEPT !.week = 25, !.received_EIP = 0,
                                !.spend_source_savings = NaN,
                                !.spending_change_economy = NaN,
                                !.food_spending_unprepared = NaN,
                                !.anxious_freq = NaN, !.worry_freq = 4]}

\* the frames load_data can return: at least one row (line 178 takes the
\* minimum of the age column)
AppFrames == {WithIndex(s) : s \in SeqUpTo(AppRows, MaxAppRows) \ {<<>>}}

AppInit ==
  /\ data \in AppFrames
  /\ call = Unset
  /\ result = Unset
  /\ widgets \in Presets(data)
  /\ slice_labels = SliceLabels(data, widgets)
  /\ df = boolean_mask(data, slice_labels)
  /\ \E sample \in Samples(df) : views = ViewTables(df, widgets, EmptyMemo, sample)
  /\ cache = ViewMemo(df, widgets, EmptyMemo)
  /\ runs = 1

\* the user sets one widget and streamlit re-executes the script
Interact ==
  /\ runs < 1 + MaxInteractions
  /\ \E c \in Choices(data) :
       /\ widgets[c[1]] # c[2]
       /\ widgets' = [widgets EXCEPT ![c[1]] = c[2]]
       /\ slice_labels' = SliceLabels(data, widgets')
       /\ df' = boolean_mask(data, slice_labels')
       /\ \E sample \in Samples(df') : views' = ViewTables(df', widgets', cache, sample)
       /\ cache' = ViewMemo(df', widgets', cache)
  /\ runs' = runs + 1
  /\ UNCHANGED <<data, call, result>>

Next == Interact

Spec == AppInit /\ [][Next]_vars

\* the slicing widgets, lines 171-189
SLICING_WIDGETS ==
  {"genders", "educations", "marital_status", "income", "races", "age_range",
   "weeks_to_show"}

\* every slicing control is at its default: no selection in any multiselect,
\* the age slider at (youngest, oldest), no week chosen
SlicingAtDefault ==
  \A k \in SLICING_WIDGETS : widgets[k] = DefaultWidgets(data)[k]

\* get_slice_membership called with the frame alone
NoFilterLabels == get_slice_membership(data, None, None, None, None, None, None)

\* C3: with no filter predicate set every record's membership is true; and in
\* a run with every slicing control at its default every loaded record stays
\* in the slice: the matching records are as many as the loaded ones.
C3_DefaultsKeepEveryRecord ==
  /\ \A i \in 1..Len(data) : NoFilterLabels.vals[i] = 1
  /\ SlicingAtDefault =>
       /\ \A i \in 1..Len(data) : slice_labels.vals[i] = 1
       /\ Sum(slice_labels.vals) = Len(data)
       /\ Len(df) = Len(data)
       /\ \A i \in 1..Len(data) : \E j \in 1..Len(df) : df[j] = data[i]

\* a rerun at the default slice over respondents of different ages, after
\* the user ticked a Show box
C3_Witness ==
  /\ SlicingAtDefault
  /\ runs = 2
  /\ Len(data) = 2
  /\ data[1].age # data[2].age
  /\ widgets.source_show

\* the loaded records whose slice membership is true
SliceRecords == SelectSeq(data, LAMBDA r : slice_labels.vals[r.id + 1] = 1)

SliceIds == {data[i].id : i \in {j \in 1..Len(data) : slice_labels.vals[j] = 1}}

\* the ids of the records a row-level table shows
TableIds(table) ==
  IF table = None THEN {} ELSE {table.rows[i].id : i \in 1..Len(table.rows)}

----------------------------------------------------------------------------
(* A session in which the user works the slicing widgets only, lines 168-197 *)

MaxSlicingRows == 2

MaxSlicingSteps == 2

\* three respondents differing in gender, age, income and week
SlicingRows ==
  {[SliceRow(1, AGES[1]) EXCEPT !.week = 20],
   [SliceRow(2, AGES[2]) EXCEPT !.week = 20],
   [SliceRow(1, AGES[2]) EXCEPT !.week = 25,
                                !.education = EDUCATION_ORDER[2],
                                !.race = RACE_VALUES[2],
                                !.marital_status = MARITAL_STATUS_ORDER[2]]}

SlicingFrames == {WithIndex(s) : s \in SeqUpTo(SlicingRows, MaxSlicingRows) \ {<<>>}}

\* a multiselect with any of its options chosen
MultiSelect(options) == {List(S) : S \in SUBSET options}

\* a range slider over the column's values: low <= high
Slider(d, col) ==
  {t \in {Tuple(a, b) : a, b \in Unique(d, col)} : t.lo <= t.hi}

\* the values a user can give the slicing widgets that this session works
SlicingChoices(d) ==
  ({"genders"} \X MultiSelect(Unique(d, "gender")))
  \cup ({"income"} \X Select(Range(INCOME_ORDER)))
  \cup ({"age_range"} \X Slider(d, "age"))
  \cup ({"weeks_to_show"} \X MultiSelect(Unique(d, "week")))

SlicingInit ==
  /\ data \in SlicingFrames
  /\ call = Unset
  /\ result = Unset
  /\ widgets = DefaultWidgets(data)
  /\ slice_labels = SliceLabels(data, widgets)
  /\ df = boolean_mask(data, slice_labels)
  /\ \E sample \in Samples(df) : views = ViewTables(df, widgets, EmptyMemo, sample)
  /\ cache = ViewMemo(df, widgets, EmptyMemo)
  /\ runs = 1

\* the user sets one slicing widget and streamlit re-executes the script
SetSlicing ==
  /\ runs < 1 + MaxSlicingSteps
  /\ \E c \in SlicingChoices(data) :
       /\ widgets[c[1]] # c[2]
       /\ widgets' = [widgets EXCEPT ![c[1]] = c[2]]
       /\ slice_labels' = SliceLabels(data, widgets')
       /\ df' = boolean_mask(data, slice_labels')
       /\ \E sample \in Samples(df') : views' = ViewTables(df', widgets', cache, sample)
       /\ cache' = ViewMemo(df', widgets', cache)
  /\ runs' = runs + 1
  /\ UNCHANGED <<data, call, result>>

SlicingNext == SetSlicing

SlicingSpec == SlicingInit /\ [][SlicingNext]_vars

\* the record passes the demographic filter of the session's widgets
PassesDemographic(row) == Satisfies(row, widgets)

\* C11: when at least one week is chosen a record is in the slice exactly
\* when it passes the demographic filter and its week is among the chosen
\* ones; when no week is chosen the slice is the demographic filter's result.
C11_WeeksRestrictByConjunction ==
  /\ Len(slice_labels.vals) = Len(data)
  /\ \A i \in 1..Len(data) :
       (slice_labels.vals[i] = 1) <=>
         /\ PassesDemographic(data[i])
         /\ widgets.weeks_to_show.items # {} =>
              data[i].week \in widgets.weeks_to_show.items
  /\ \A j \in 1..Len(df) : slice_labels.vals[df[j].id + 1] = 1
  /\ Len(df) = Cardinality({i \in 1..Len(data) : slice_labels.vals[i] = 1})
  /\ widgets.weeks_to_show.items = {} =>
       slice_labels = ApplySlice(data, widgets)

\* a gender and a week are chosen; one record passes the gender filter but is
\* of another week, and one is of the chosen week but fails the gender filter
C11_Witness ==
  /\ widgets.genders.items # {}
  /\ widgets.weeks_to_show.items # {}
  /\ \E i \in 1..Len(data) :
       /\ PassesDemographic(data[i])
       /\ data[i].week \notin widgets.weeks_to_show.items
       /\ slice_labels.vals[i] = 0
  /\ \E i \in 1..Len(data) :
       /\ ~PassesDemographic(data[i])
       /\ data[i].week \in widgets.weeks_to_show.items
       /\ slice_labels.vals[i] = 0

\* the list filters of the slice: the five demographic ones and the weeks
LIST_FILTERS == SliceFilters \cup {"weeks_to_show"}

\* the settings the slicing widgets of frame d can be compared with: those
\* the session can be brought to, with or without every value of education,
\* race and marital status selected as well
SlicingSettings(d) ==
  {[DefaultWidgets(d) EXCEPT
      !.genders = g[2], !.income = n[2], !.age_range = a[2], !.weeks_to_show = k[2],
      !.educations = IF o THEN List(Unique(d, "education")) ELSE List({}),
      !.races = IF o THEN List(Unique(d, "race")) ELSE List({}),
      !.marital_status = IF o THEN List(Unique(d, "marital_status")) ELSE List({})] :
      g \in {"genders"} \X MultiSelect(Unique(d, "gender")),
      n \in {"income"} \X Select(Range(INCOME_ORDER)),
      a \in {"age_range"} \X Slider(d, "age"),
      k \in {"weeks_to_show"} \X MultiSelect(Unique(d, "week")),
      o \in BOOLEAN}

\* the age range of setting n lies inside that of setting w
AgeInside(n, w) == w.age_range.lo <= n.age_range.lo /\ n.age_range.hi <= w.age_range.hi

\* setting n selects, filter by filter, a subset of what setting w selects
\* where w selects anything
SubsetOfNonEmpty(n, w) ==
  /\ \A f \in LIST_FILTERS : w[f].items # {} => n[f].items \subseteq w[f].items
  /\ AgeInside(n, w)

\* the same, with the subsets themselves non-empty
NonEmptySubsetOfNonEmpty(n, w) ==
  /\ \A f \in LIST_FILTERS :
       w[f].items # {} => n[f].items # {} /\ n[f].items \subseteq w[f].items
  /\ AgeInside(n, w)

\* every record in the session's slice is in the slice of setting w
SliceWithin(w) ==
  \A i \in 1..Len(data) :
    slice_labels.vals[i] = 1 => SliceLabels(data, w).vals[i] = 1

\* C12 as stated: a setting whose selected sets are subsets of another's
\* non-empty selected sets, and whose age range lies inside the other's, has
\* its slice inside the other's slice.
C12_SubsetSelectionSubsetSlice ==
  \A w \in SlicingSettings(data) : SubsetOfNonEmpty(widgets, w) => SliceWithin(w)

\* C12, amended: a setting whose selected sets are non-empty subsets of
\* another's non-empty selected sets, and whose age range lies inside the
\* other's, has its slice inside the other's slice.  (An emptied selection
\* is no constraint, so it widens the slice.)
C12_NonEmptySubsetSelectionSubsetSlice ==
  \A w \in SlicingSettings(data) : NonEmptySubsetOfNonEmpty(widgets, w) => SliceWithin(w)

\* one gender of two and one week of two are chosen, and the slice is a
\* non-empty proper part of the slice with both genders and both weeks chosen
C12_Witness ==
  \E w \in SlicingSettings(data) :
    /\ NonEmptySubsetOfNonEmpty(widgets, w)
    /\ w.genders.items # {} /\ widgets.genders.items # w.genders.items
    /\ w.weeks_to_show.items # {} /\ widgets.weeks_to_show.items # w.weeks_to_show.items
    /\ \E i \in 1..Len(data) : slice_labels.vals[i] = 1
    /\ \E i \in 1..Len(data) :
         slice_labels.vals[i] = 0 /\ SliceLabels(data, w).vals[i] = 1

----------------------------------------------------------------------------
(* A session on the Receipt of EIP and the mental health views, both shown,
   lines 371-577 *)

MaxChartRows == 2

MaxChartSteps == 2

\* four respondents: one of week 20, when the receipt question was not asked,
\* and three of week 25: one who received a payment, one who did not and one
\* who left the question unanswered
ChartRows ==
  {[SliceRow(1, AGES[1]) EXCEPT !.week = 20, !.received_EIP = NaN,
                                !.anxious_freq = 1, !.worry_freq = 2],
   [SliceRow(2, AGES[2]) EXCEPT !.week = 25, !.received_EIP = 1,
                                !.anxious_freq = 3, !.worry_freq = NaN],
   [SliceRow(1, AGES[2]) EXCEPT !.week = 25, !.received_EIP = 0,
                                !.anxious_freq = NaN, !.worry_freq = 4],
   [SliceRow(2, AGES[1]) EXCEPT !.week = 25, !.received_EIP = NaN,
                                !.anxious_freq = 3, !.worry_freq = 1]}

ChartFrames == {WithIndex(s) : s \in SeqUpTo(ChartRows, MaxChartRows) \ {<<>>}}

\* the controls of the Receipt of EIP view, lines 382-392
EIP_CONTROLS == {"percentage", "values_to_show", "eip_layering"}

\* the controls of the mental health view, lines 511-521
MH_CONTROLS == {"chart_type", "mh_field", "mh_layering"}

\* the values a user can give the controls of the two views
ChartChoices ==
  ({"percentage"} \X BOOLEAN)
  \cup ({"values_to_show"} \X {"Both", "Received EIP", "Did not receive EIP"})
  \cup ({"eip_layering"} \X {"none", "gender"})
  \cup ({"chart_type"} \X {"Line", "Bar"})
  \cup ({"mh_field"} \X {"anxious_freq", "worry_freq"})
  \cup ({"mh_layering"} \X {"none", "received_EIP"})

\* the session is picked up once the user has ticked the two Show boxes
ChartInit ==
  /\ data \in ChartFrames
  /\ call = Unset
  /\ result = Unset
  /\ widgets = [DefaultWidgets(data) EXCEPT !.eip_show = TRUE, !.mh_show = TRUE]
  /\ slice_labels = SliceLabels(data, widgets)
  /\ df = boolean_mask(data, slice_labels)
  /\ \E sample \in Samples(df) : views = ViewTables(df, widgets, EmptyMemo, sample)
  /\ cache = ViewMemo(df, widgets, EmptyMemo)
  /\ runs = 1

\* the user sets one control of the two views and streamlit re-executes the
\* script
SetChart ==
  /\ runs < 1 + MaxChartSteps
  /\ \E c \in ChartChoices :
       /\ widgets[c[1]] # c[2]
       /\ widgets' = [widgets EXCEPT ![c[1]] = c[2]]
       /\ slice_labels' = SliceLabels(data, widgets')
       /\ df' = boolean_mask(data, slice_labels')
       /\ \E sample \in Samples(df') : views' = ViewTables(df', widgets', cache, sample)
       /\ cache' = ViewMemo(df', widgets', cache)
  /\ runs' = runs + 1
  /\ UNCHANGED <<data, call, result>>

ChartNext == SetChart

ChartSpec == ChartInit /\ [][ChartNext]_vars

\* the grouping columns of the Receipt of EIP view
EipKeys == <<"week">> \o AddFields(widgets.eip_layering)

\* the (week, additional breakdown) groups of the sliced records in which at
\* least one record answers the receipt question
AnsweredGroups ==
  {CellsAt(df[i], EipKeys) :
     i \in {j \in 1..Len(df) :
              /\ \A a \in 1..Len(EipKeys) : ~isna(EipKeys[a], df[j][EipKeys[a]])
              /\ df[j].received_EIP # NaN}}

\* what the view shows with 'Show as percentage' checked and one value chosen
EipShown(values_to_show) ==
  EipView(df, TRUE, TRUE, values_to_show, widgets.eip_layering)

\* the fraction a one-value table shows for a group: no row, nothing shown
FractionShown(table, g) ==
  IF \E row \in table.rows : row.key = g
  THEN (CHOOSE row \in table.rows : row.key = g).n
  ELSE [num |-> 0, den |-> 1]

\* C13: with 'Show as percentage' checked and one value shown, for every
\* (week, additional breakdown) group of the sliced records that holds an
\* answer, the fraction under 'Received EIP' and the fraction under 'Did not
\* receive EIP' add up to 1, and where both are shown they are fractions of
\* the same number of records.
C13_ReceivedAndDidNotAddToOne ==
  (widgets.eip_show /\ widgets.percentage /\ widgets.values_to_show # "Both") =>
    /\ views.eip = EipShown(widgets.values_to_show)
    /\ \A g \in AnsweredGroups :
         LET received == FractionShown(EipShown("Received EIP"), g)
             did_not == FractionShown(EipShown("Did not receive EIP"), g)
         IN /\ received.num * did_not.den + did_not.num * received.den
                 = received.den * did_not.den
            /\ (received.num > 0 /\ did_not.num > 0) => received.den = did_not.den

\* a witness of the case of C13: one value is shown as a percentage for a
\* week-25 group in which one respondent answered and one did not
C13_Case ==
  /\ widgets.eip_show /\ widgets.percentage
  /\ widgets.values_to_show = "Did not receive EIP"
  /\ views.eip.rows # {}
  /\ \E i, j \in 1..Len(df) :
       /\ df[i].week = df[j].week
       /\ df[i].received_EIP # NaN
       /\ df[j].received_EIP = NaN

\* C14: between two consecutive runs that differ only in controls of the
\* Receipt of EIP view ('Show as percentage', 'Values to show', 'Additional
\* breakdown'), the table behind the mental health chart and its download is
\* the same.
C14_MentalHealthTableKeepsUnderOtherControls ==
  [][(\A k \in DOMAIN widgets \ EIP_CONTROLS : widgets'[k] = widgets[k])
       => views'.mental_health = views.mental_health]_vars

\* a witness of the case of C14: the mental health bar chart is shown after
\* 'Show as percentage' of the Receipt of EIP view was unticked
C14_Case ==
  /\ widgets.mh_show /\ widgets.chart_type = "Bar"
  /\ ~widgets.percentage
  /\ views.mental_health.rows # {}

----------------------------------------------------------------------------
(* The EIP spending targets view in the session of Spec *)

\* the sliced records of another week than 20
OtherWeeks == SelectSeq(df, LAMBDA r : r.week \in Range(WEEKS) \ {20})

\* C15: the table behind the EIP spending targets chart and download has no
\* row of week 20, and it is the table that the sliced records of the other
\* weeks give alone: the records of week 20 add nothing to any '% agree'.
C15_TargetsNeverReportWeek20 ==
  views.target # None =>
    /\ \A g \in 1..Len(views.target.rows) : views.target.rows[g].key[1] # 20
    /\ views.target = LongView(EmptyMemo, OtherWeeks, TRUE, <<"eip_spend_">>, "Target",
                               widgets.target_layering, widgets.target_include)
    /\ \A g \in 1..Len(views.target.rows) :
         views.target.rows[g].agree.den <=
           Cardinality({i \in 1..Len(df) : df[i].week = views.target.rows[g].key[1]})

\* the targets table is shown with rows for a slice that holds a record of
\* week 20 and a record of week 25
C15_Witness ==
  /\ views.target # None
  /\ Len(views.target.rows) > 0
  /\ \E i, j \in 1..Len(df) : df[i].week = 20 /\ df[j].week = 25

====
